---- MODULE Spec2Model ----
(***************************************************************************)
(* A model of slab's Filter class (src/slab/filter.py) and of the Signal   *)
(* base class it extends (src/slab/signals.py).                            *)
(*                                                                         *)
(* Floating point numbers are modelled as exact rationals <<n, d>>.        *)
(* numpy arrays are records [shape, v]: a 1-D array has shape <<n>> and v  *)
(* a sequence of numbers, a 2-D array has shape <<rows, cols>> and v a     *)
(* sequence of rows.  Objects live in a heap and are named by references,  *)
(* so that aliasing and copy.deepcopy are what they are in Python.         *)
(***************************************************************************)
EXTENDS Integers, Sequences, FiniteSets, TLC

(* ------------------------------ bounds -------------------------------- *)
\* The largest number of rows (samples, taps, bins) of an input array.
MaxRows == 4
\* The largest number of columns (channels, filters) of an input array.
MaxCols == 3
\* The number of value patterns an input array is filled with.
MaxSeed == 1

(* ---------------------------- rationals ------------------------------- *)
Abs(x) == IF x < 0 THEN -x ELSE x

RECURSIVE Gcd(_, _)
Gcd(a, b) == IF b = 0 THEN a ELSE Gcd(b, a % b)

\* n/d in lowest terms with a positive denominator (d # 0).
Rat(n, d) ==
    LET g == Gcd(Abs(n), Abs(d))
        s == IF d < 0 THEN -1 ELSE 1
    IN  <<(s * n) \div g, (s * d) \div g>>

Q(i) == <<i, 1>>
RAdd(a, b) == Rat(a[1] * b[2] + b[1] * a[2], a[2] * b[2])
RSub(a, b) == Rat(a[1] * b[2] - b[1] * a[2], a[2] * b[2])
RMul(a, b) == Rat(a[1] * b[1], a[2] * b[2])
RDiv(a, b) == Rat(a[1] * b[2], a[2] * b[1])
RLt(a, b) == a[1] * b[2] < b[1] * a[2]
RLe(a, b) == a[1] * b[2] <= b[1] * a[2]

\* floor of a rational (\div rounds towards minus infinity)
RFloor(a) == a[1] \div a[2]

\* Python's round() and numpy.round: to the nearest integer, ties to even.
Round(a) ==
    LET f == RFloor(a)
        twice == 2 * (a[1] - f * a[2])      \* 2 * fractional part * a[2]
    IN  IF twice < a[2] THEN f
        ELSE IF twice > a[2] THEN f + 1
        ELSE IF f % 2 = 0 THEN f ELSE f + 1

RECURSIVE SumSeq(_)
SumSeq(s) == IF s = <<>> THEN Q(0) ELSE RAdd(Head(s), SumSeq(Tail(s)))

(* ------------------------------ arrays -------------------------------- *)
Array1(s) == [shape |-> <<Len(s)>>, v |-> s]
Array2(rows, cols, f) ==
    [shape |-> <<rows, cols>>,
     v |-> [i \in 1..rows |-> [j \in 1..cols |-> f[i, j]]]]

Ndim(a) == Len(a.shape)

\* a[:, j] of a 2-D array, a 1-D array (columns count from 1 here)
Column(a, j) == Array1([i \in 1..a.shape[1] |-> a.v[i][j]])

\* a.T of a 2-D array
Transpose(a) ==
    Array2(a.shape[2], a.shape[1],
           [i \in 1..a.shape[2], j \in 1..a.shape[1] |-> a.v[j][i]])

\* a 1-D array seen as one column: data.shape = (len(data), 1)
AsColumn(a) ==
    Array2(a.shape[1], 1, [i \in 1..a.shape[1], j \in 1..1 |-> a.v[i]])

(* ------------------------------ objects ------------------------------- *)
\* Python's None, where a number is expected (no input of the model is 0).
None == 0
\* slab.signals._default_samplerate
DefaultSamplerate == 8000
\* have_scipy: the model runs with scipy installed
HaveScipy == TRUE

NoObject == [cls |-> "None"]
NoRef == 0

\* Signal.get_samplerate
GetSamplerate(samplerate) ==
    IF samplerate = None THEN DefaultSamplerate ELSE samplerate

\* Signal.__init__ for data a numpy array (arg.kind = "ndarray") or an object
\* that is neither an array nor a sequence (TypeError).  The result is
\* [err, obj].
SignalInit(arg, samplerate) ==
    IF arg.kind # "ndarray"
    THEN [err |-> "TypeError", obj |-> NoObject]
    ELSE LET a == arg.array
             data == IF Ndim(a) = 1 THEN AsColumn(a)
                     ELSE IF a.shape[2] > a.shape[1] THEN Transpose(a)
                     ELSE a
         IN  [err |-> "none",
              obj |-> [cls |-> "Signal", data |-> data,
                       samplerate |-> GetSamplerate(samplerate)]]

\* Filter.__init__
FilterInit(arg, samplerate, fir) ==
    IF fir /\ ~HaveScipy
    THEN [err |-> "ImportError", obj |-> NoObject]
    ELSE LET s == SignalInit(arg, samplerate)
         IN  IF s.err # "none" THEN s
             ELSE [err |-> "none",
                   obj |-> [cls |-> "Filter", data |-> s.obj.data,
                            samplerate |-> s.obj.samplerate, fir |-> fir]]

\* the instance properties
nsamples(o) == o.data.shape[1]
nchannels(o) == o.data.shape[2]
nfilters(o) == nchannels(o)
ntaps(o) == nsamples(o)
nfrequencies(o) == nsamples(o)

(* --------------------------- numpy and scipy -------------------------- *)
\* The result of a library call: [err, val]; err is "none" or the exception.
Ok(val) == [err |-> "none", val |-> val]
Raise(exc) == [err |-> exc, val |-> Array1(<<>>)]

\* scipy.signal.lfilter(b, [1], x, axis=0), x 2-D: each column of x is
\* convolved with b and cut to the length of x.  b must be 1-D: for any other
\* b numpy.convolve raises ValueError (object too deep for desired array).
Lfilter(b, x) ==
    IF Ndim(b) # 1 THEN Raise("ValueError")
    ELSE LET n == x.shape[1]
             y(i, j) == SumSeq([k \in 1..(IF i < Len(b.v) THEN i ELSE Len(b.v))
                                  |-> RMul(b.v[k], x.v[i - k + 1][j])])
         IN  Ok(Array2(n, x.shape[2],
                       [i \in 1..n, j \in 1..x.shape[2] |-> y(i, j)]))

\* numpy.fft.rfftfreq(n, d=1/samplerate): k * samplerate / n, k = 0..n//2
Rfftfreq(n, samplerate) ==
    [k \in 1..((n \div 2) + 1) |-> Rat((k - 1) * samplerate, n)]

\* exp(2 pi i t / n) as <<re, im>>, for the n whose roots of unity are
\* rational (n divides 4): the sample counts of the model's even signals.
Twiddle(n, t) ==
    LET q == ((4 * (t % n)) \div n) % 4
        exact == (4 * (t % n)) % n = 0
    IN  CASE exact /\ q = 0 -> <<Q(1), Q(0)>>
          [] exact /\ q = 1 -> <<Q(0), Q(1)>>
          [] exact /\ q = 2 -> <<Q(-1), Q(0)>>
          [] exact /\ q = 3 -> <<Q(0), Q(-1)>>

CMul(a, b) ==
    <<RSub(RMul(a[1], b[1]), RMul(a[2], b[2])),
      RAdd(RMul(a[1], b[2]), RMul(a[2], b[1]))>>

\* numpy.fft.rfft of a sequence x of n real numbers: n//2 + 1 complex bins
Rfft(x) ==
    LET n == Len(x)
    IN  [j \in 1..((n \div 2) + 1) |->
            <<SumSeq([k \in 1..n |->
                  CMul(<<x[k], Q(0)>>, Twiddle(n, n - (((j - 1) * (k - 1)) % n)))[1]]),
              SumSeq([k \in 1..n |->
                  CMul(<<x[k], Q(0)>>, Twiddle(n, n - (((j - 1) * (k - 1)) % n)))[2]])>>]

\* the number of samples numpy.fft.irfft returns for m bins: 2 * (m - 1)
IrfftLen(m) == 2 * (m - 1)

\* numpy.fft.irfft of m complex bins X (m >= 2): n = 2 * (m - 1) real samples;
\* the imaginary parts of the first and the last bin are ignored.
Irfft(X) ==
    LET m == Len(X)
        n == IrfftLen(m)
        term(j, k) ==
            IF j = 1 THEN X[1][1]
            ELSE IF j = m
            THEN RMul(X[m][1], IF (k - 1) % 2 = 0 THEN Q(1) ELSE Q(-1))
            ELSE RMul(Q(2), CMul(X[j], Twiddle(n, (j - 1) * (k - 1)))[1])
    IN  [k \in 1..n |-> RDiv(SumSeq([j \in 1..m |-> term(j, k)]), Q(n))]

\* numpy.interp(x, xp, fp) at one point x: linear between the points of xp
\* (increasing), fp[0] below them and fp[-1] above them.
RECURSIVE InterpAt(_, _, _, _)
InterpAt(x, xp, fp, k) ==
    IF RLe(x, xp[1]) THEN fp[1]
    ELSE IF k = Len(xp) THEN fp[k]
    ELSE IF RLe(x, xp[k + 1])
    THEN RAdd(fp[k], RMul(RSub(fp[k + 1], fp[k]),
                          RDiv(RSub(x, xp[k]), RSub(xp[k + 1], xp[k]))))
    ELSE InterpAt(x, xp, fp, k + 1)

\* numpy.interp(x, xp, fp): fp must be 1-D, any other fp raises ValueError
\* (object too deep for desired array).
Interp(x, xp, fp) ==
    IF Ndim(fp) # 1 THEN Raise("ValueError")
    ELSE Ok(Array1([i \in 1..Len(x) |-> InterpAt(x[i], xp, fp.v, 1)]))

(* ---------------------------- Filter.apply ---------------------------- *)
\* Filter.frequencies of a frequency-domain filter:
\* numpy.fft.rfftfreq(ntaps * 2 - 1, d=1/samplerate)
Frequencies(f) == Rfftfreq(ntaps(f) * 2 - 1, f.samplerate)

\* RateMismatch without the rate-agnostic sentinel
RateMismatchNoSentinel(f, s) == f.samplerate # s.samplerate

\* the test of line 99
RateMismatch(f, s) == f.samplerate # s.samplerate /\ f.samplerate # 1

\* the FIR branch: the new out.data, or the exception
ApplyFir(f, s, o) ==
    IF nfilters(f) = nchannels(s)
    THEN Lfilter(f.data, o.data)
    ELSE IF nfilters(f) = 1 /\ nchannels(s) > 1
    THEN Lfilter(f.data, o.data)
    ELSE IF nfilters(f) > 1 /\ nchannels(s) = 1
    THEN Ok(Array2(nsamples(s), nfilters(f),
                   [i \in 1..nsamples(s), filt \in 1..nfilters(f) |->
                        Lfilter(Column(f.data, filt), s.data).val.v[i][1]]))
    ELSE Raise("ShapeMismatch")

\* out.data[:, chan] = numpy.fft.irfft(sig_rfft[:, chan] * _filt) for one
\* channel x of n samples and the interpolated gains _filt: irfft raises
\* ValueError for a single bin (0 output points), and the assignment raises
\* ValueError when irfft's 2 * (m - 1) samples are not the n of the column.
FftChannel(x, gains) ==
    LET n == Len(x)
        m == (n \div 2) + 1
    IN  IF gains.err # "none" THEN gains
        ELSE IF IrfftLen(m) = 0 THEN Raise("ValueError")
        ELSE IF IrfftLen(m) # n THEN Raise("ValueError")
        ELSE LET X == Rfft(x)
             IN  Ok(Array1(Irfft([j \in 1..m |->
                        <<RMul(X[j][1], gains.val.v[j]),
                          RMul(X[j][2], gains.val.v[j])>>])))

\* an array of the columns cols (a sequence of results), or the exception of
\* the first column that raised
FromColumns(rows, cols) ==
    IF \E j \in 1..Len(cols) : cols[j].err # "none"
    THEN Raise(cols[CHOOSE j \in 1..Len(cols) :
                        /\ cols[j].err # "none"
                        /\ \A k \in 1..(j - 1) : cols[k].err = "none"].err)
    ELSE Ok(Array2(rows, Len(cols),
                   [i \in 1..rows, j \in 1..Len(cols) |-> cols[j].val.v[i]]))

\* the frequency-domain branch: the new out.data, or the exception
ApplyFft(f, s, o) ==
    LET sig_freq_bins == Rfftfreq(nsamples(s), s.samplerate)
        filt_freq_bins == Frequencies(f)
    IN  IF nfilters(f) = nchannels(s)
        THEN FromColumns(nsamples(s),
                 [chan \in 1..nchannels(s) |->
                     FftChannel(Column(s.data, chan).v,
                         Interp(sig_freq_bins, filt_freq_bins, Column(f.data, chan)))])
        ELSE IF nfilters(f) = 1 /\ nchannels(s) > 1
        THEN FromColumns(nsamples(s),
                 [chan \in 1..nchannels(s) |->
                     FftChannel(Column(s.data, chan).v,
                         Interp(sig_freq_bins, filt_freq_bins, f.data))])
        ELSE IF nfilters(f) > 1 /\ nchannels(s) = 1
        THEN FromColumns(nsamples(s),
                 [filt \in 1..nfilters(f) |->
                     FftChannel(Column(s.data, 1).v,
                         Interp(sig_freq_bins, filt_freq_bins, Column(f.data, filt)))])
        ELSE Raise("ShapeMismatch")

(* ------------------------------- state -------------------------------- *)
\* heap:   the objects, by address
\* filt:   the caller's Filter (a reference), NoRef before it is made
\* sig:    the caller's Signal (a reference), NoRef before it is made
\* out:    the object the last call returned, NoRef if it returned none
\* stored: the array in the .npy file, an empty array before any save
\* last:   the last call: its name, exception, arguments, the heap before it
\*         and the values it returned that are not objects
VARIABLES heap, filt, sig, out, stored, last
vars == <<heap, filt, sig, out, stored, last>>

Addrs == 1..3
NoFile == Array1(<<>>)

\* the address of a new object: the first one the caller holds no reference
\* to (the object the previous call returned is dropped as a call begins)
Fresh == CHOOSE a \in Addrs \ {filt, sig} :
             \A b \in Addrs \ {filt, sig} : a <= b

\* the heap as a call begins
Start == [a \in Addrs |-> IF a \in {filt, sig} THEN heap[a] ELSE NoObject]

\* the record of a call
Call(op, err, args, val) ==
    [op |-> op, err |-> err, pre |-> Start, args |-> args, val |-> val]

\* the cells of the array are rational numbers (not the half-cosines of a
\* cos_filterbank): the arrays whose filtering the model computes
Rational(a) ==
    \A i \in 1..a.shape[1] : \A j \in 1..a.shape[2] : Len(a.v[i][j]) = 2

\* A behaviour is one scenario of a caller: it builds a filter, or a filter
\* and then a signal, or a signal alone, and calls one operation on what it
\* built (a load follows a save).
FilterMakers == {"Filter", "rectangular_filter", "cos_filterbank"}
NothingBuilt == last.op = "none"
FilterBuilt == filt # NoRef /\ sig = NoRef /\ last.op \in FilterMakers
SignalBuilt == sig # NoRef /\ last.op = "Signal" /\ last.err = "none"

(* ------------------------------- inputs ------------------------------- *)
\* the value at row i, column j of the input array of pattern seed
Pattern(seed, i, j) == Q(((seed * i + 2 * j + i * j) % 4) - 1)

InputArrays ==
    { Array1([i \in 1..n |-> Pattern(seed, i, 1)]) :
          n \in 1..MaxRows, seed \in 1..MaxSeed }
    \cup
    { Array2(n, c, [i \in 1..n, j \in 1..c |-> Pattern(seed, i, j)]) :
          n \in 1..MaxRows, c \in 1..MaxCols, seed \in 1..MaxSeed }

\* the data argument of a constructor: an array, or an object that is
\* neither an array nor a sequence
DataArgs ==
    { [kind |-> "ndarray", array |-> a] : a \in InputArrays }
    \cup { [kind |-> "other", array |-> Array1(<<>>)] }

\* the samplerate argument: None (the default), the rate-agnostic 1, or a rate
SamplerateArgs == {None, 1, 10}

(* ------------------------------ actions ------------------------------- *)
Init ==
    /\ heap = [a \in Addrs |-> NoObject]
    /\ filt = NoRef
    /\ sig = NoRef
    /\ out = NoRef
    /\ stored = NoFile
    /\ last = [op |-> "none", err |-> "none", pre |-> heap,
               args |-> <<>>, val |-> <<>>]

\* filt = Filter(data, samplerate, fir)
NewFilter ==
    /\ NothingBuilt
    /\ \E arg \in DataArgs, samplerate \in SamplerateArgs, fir \in BOOLEAN :
         LET r == FilterInit(arg, samplerate, fir)
         IN  /\ last' = Call("Filter", r.err, <<arg, samplerate, fir>>, <<>>)
             /\ IF r.err = "none"
                THEN /\ heap' = [Start EXCEPT ![Fresh] = r.obj]
                     /\ filt' = Fresh
                ELSE /\ heap' = Start
                     /\ filt' = filt
             /\ out' = NoRef
             /\ UNCHANGED <<sig, stored>>

\* sig = Signal(data, samplerate)
NewSignal ==
    /\ NothingBuilt \/ (FilterBuilt /\ Rational(heap[filt].data))
    /\ \E arg \in DataArgs, samplerate \in SamplerateArgs :
         LET r == SignalInit(arg, samplerate)
         IN  /\ last' = Call("Signal", r.err, <<arg, samplerate>>, <<>>)
             /\ IF r.err = "none"
                THEN /\ heap' = [Start EXCEPT ![Fresh] = r.obj]
                     /\ sig' = Fresh
                ELSE /\ heap' = Start
                     /\ sig' = sig
             /\ out' = NoRef
             /\ UNCHANGED <<filt, stored>>

\* DeepCopy as a plain assignment, out = sig: the same object
DeepCopyAlias(ref, fresh) == ref

\* copy.deepcopy(sig): a new object, at the address fresh
DeepCopy(ref, fresh) == fresh


\* out = filt.apply(sig)
Apply ==
    /\ SignalBuilt /\ filt # NoRef
    /\ Rational(Start[filt].data)
    /\ LET f == Start[filt]
           s == Start[sig]
       IN  IF RateMismatch(f, s)
           THEN /\ last' = Call("apply", "RateMismatch", <<filt, sig>>, <<>>)
                /\ heap' = Start
                /\ out' = NoRef
           ELSE LET o == DeepCopy(sig, Fresh)
                    h == [Start EXCEPT ![o] = Start[sig]]
                    r == IF f.fir THEN ApplyFir(f, h[sig], h[o])
                                  ELSE ApplyFft(f, h[sig], h[o])
                IN  /\ last' = Call("apply", r.err, <<filt, sig>>, <<>>)
                    /\ IF r.err = "none"
                       THEN /\ heap' = [h EXCEPT ![o].data = r.val]
                            /\ out' = o
                       ELSE /\ heap' = Start
                            /\ out' = NoRef
    /\ UNCHANGED <<filt, sig, stored>>

\* numpy.tile(x, reps)[numpy.newaxis, :]: one row of reps copies of x
TileRow(x, reps) == Array2(1, reps, [i \in 1..1, j \in 1..reps |-> x])

\* numpy.concatenate of 2-D arrays along the rows; arrays whose numbers of
\* columns differ raise ValueError
RECURSIVE Concatenate(_)
Concatenate(arrays) ==
    IF Len(arrays) = 1 THEN Ok(arrays[1])
    ELSE LET a == arrays[1]
             rest == Concatenate(Tail(arrays))
         IN  IF rest.err # "none" THEN rest
             ELSE IF a.shape[2] # rest.val.shape[2] THEN Raise("ValueError")
             ELSE Ok([shape |-> <<a.shape[1] + rest.val.shape[1], a.shape[2]>>,
                      v |-> a.v \o rest.val.v])

\* the array Filter.save writes: the samplerate row, the row of the fir flag
\* (True is 1.0 and False 0.0 in the float array), then the data
SaveArray(f) ==
    Concatenate(<<TileRow(Q(f.samplerate), nfilters(f)),
                  TileRow(IF f.fir THEN Q(1) ELSE Q(0), nfilters(f)),
                  f.data>>)

\* a float read back as a number: floats and integers of one value are equal
\* in Python (8000.0 == 8000)
Number(q) == IF q[2] = 1 THEN q[1] ELSE q

\* data[2:, :] of Filter.load
DropHeader(data) ==
    [shape |-> <<data.shape[1] - 2, data.shape[2]>>,
     v |-> SubSeq(data.v, 3, data.shape[1])]

\* Filter.load of the file's array: [err, obj]; data[0][0] raises IndexError
\* in an array without columns
LoadArray(data) ==
    IF data.shape[1] < 1 \/ data.shape[2] < 1
    THEN [err |-> "IndexError", obj |-> NoObject]
    ELSE LET samplerate == Number(data.v[1][1])
             fir == data.v[2][1] # Q(0)
         IN  FilterInit([kind |-> "ndarray", array |-> DropHeader(data)],
                        samplerate, fir)

\* filt.save(filename)
Save ==
    /\ FilterBuilt
    /\ LET r == SaveArray(Start[filt])
       IN  /\ last' = Call("save", r.err, <<filt>>, <<>>)
           /\ stored' = IF r.err = "none" THEN r.val ELSE stored
    /\ heap' = Start
    /\ out' = NoRef
    /\ UNCHANGED <<filt, sig>>

\* out = Filter.load(filename), of a file a save wrote
Load ==
    /\ stored # NoFile /\ last.op = "save"
    /\ LET r == LoadArray(stored)
       IN  /\ last' = Call("load", r.err, <<stored>>, <<>>)
           /\ IF r.err = "none"
              THEN /\ heap' = [Start EXCEPT ![Fresh] = r.obj]
                   /\ out' = Fresh
              ELSE /\ heap' = Start
                   /\ out' = NoRef
    /\ UNCHANGED <<filt, sig, stored>>

\* the number of frequencies of scipy.signal.freqz (worN)
WorN == 512

\* the channels argument of tf: an int, a list of distinct filter indices
\* (counted from 0, as in Python), or 'all'
RECURSIVE Lists(_, _)
Lists(indices, len) ==
    IF len = 0 THEN {<<>>}
    ELSE { <<i>> \o l : i \in indices, l \in Lists(indices, len - 1) }

Distinct(l) == \A p, q \in 1..Len(l) : p # q => l[p] # l[q]

ChannelArgs(F) ==
    { [kind |-> "int", idx |-> <<i>>] : i \in 0..(F - 1) }
    \cup { [kind |-> "list", idx |-> l] :
              l \in { l \in UNION { Lists(0..(F - 1), n) : n \in 1..F } :
                         Distinct(l) } }
    \cup { [kind |-> "all", idx |-> <<>>] }

\* lines 143-146: the list of filter indices to process
ChannelList(f, channels) ==
    IF channels.kind = "all" THEN [k \in 1..nfilters(f) |-> k - 1]
    ELSE channels.idx

\* abs(freqz(taps, worN=512, fs=samplerate)[1]): the magnitude response of one
\* filter, a column of WorN numbers that are not rational: it is named by the
\* taps it is the response of
Freqz(taps, samplerate) == [kind |-> "response", of |-> taps, fs |-> samplerate]

\* a column of numpy.empty: not written yet
Unwritten == [kind |-> "unwritten", of |-> Array1(<<>>), fs |-> 0]

\* lines 148-151, a loop over the positions p of the list: h is the sequence
\* of the columns of the 512 x len(channels) array; h[:, idx] with idx beyond
\* the columns raises IndexError.  freqz is handed the Filter object that
\* self.channel(idx) returns, not an array: reads says whether the installed
\* scipy reads the taps out of it or raises TypeError.
RECURSIVE TfFirLoop(_, _, _, _, _)
TfFirLoop(f, list, p, h, reads) ==
    IF p > Len(list) THEN [err |-> "none", h |-> h]
    ELSE LET idx == list[p]
         IN  IF idx >= nfilters(f) THEN [err |-> "IndexError", h |-> h]
             ELSE IF ~reads THEN [err |-> "TypeError", h |-> h]
             ELSE IF idx >= Len(h) THEN [err |-> "IndexError", h |-> h]
             ELSE TfFirLoop(f, list, p + 1,
                      [h EXCEPT ![idx + 1] =
                          Freqz(Column(f.data, idx + 1), f.samplerate)],
                      reads)

\* Filter.tf(channels, plot=False): [err, w, h], h = [shape, cols]
TfValue(f, channels, reads) ==
    LET list == ChannelList(f, channels)
    IN  IF f.fir
        THEN LET r == TfFirLoop(f, list, 1, [k \in 1..Len(list) |-> Unwritten],
                                reads)
             IN  [err |-> r.err,
                  w |-> [kind |-> "freqz", n |-> WorN, fs |-> f.samplerate],
                  h |-> [shape |-> <<WorN, Len(list)>>, cols |-> r.h]]
        ELSE IF \E p \in 1..Len(list) : list[p] >= nfilters(f)
        THEN [err |-> "IndexError", w |-> <<>>, h |-> <<>>]
        ELSE [err |-> "none",
              w |-> Frequencies(f),
              h |-> [shape |-> <<nfrequencies(f), Len(list)>>,
                     cols |-> [p \in 1..Len(list) |->
                                  Column(f.data, list[p] + 1)]]]

\* filt.tf(channels, plot): with plot=True the response is plotted and nothing
\* is returned; reads is the behaviour of the installed scipy
Tf ==
    /\ FilterBuilt
    /\ \E channels \in ChannelArgs(nfilters(Start[filt])), plot \in BOOLEAN,
          reads \in BOOLEAN :
         LET r == TfValue(Start[filt], channels, reads)
         IN  last' = Call("tf", r.err, <<filt, channels, plot, reads>>,
                          IF plot \/ r.err # "none" THEN <<>>
                          ELSE <<r.w, r.h>>)
    /\ heap' = Start
    /\ out' = NoRef
    /\ UNCHANGED <<filt, sig, stored>>

(* ---------------------- Filter.rectangular_filter ---------------------- *)
\* the frequency argument: a number, or a tuple of two
Frequencies1 == {1, 3, 1000, 3000}
FrequencyArgs ==
    { [kind |-> "number", f |-> <<f>>] : f \in Frequencies1 }
    \cup { [kind |-> "tuple", f |-> <<f0, f1>>] :
              f0 \in {1, 1000}, f1 \in {3, 3000} }

\* the kinds the docstring names, and the one line 90 tests for
Kinds == {"lp", "hp", "bp", "bs", "notch"}

\* round(frequency / df), df = 1 / (st * length), st = 1 / (samplerate / 2)
Bin(frequency, samplerate, length) ==
    Round(RDiv(Q(frequency), RDiv(Q(samplerate), Q(2 * length))))

\* a zero array of length bins with filt[lo:hi] = 1 (0 <= lo, 0 <= hi)
Ones(mask, lo, hi) ==
    [i \in 1..Len(mask) |-> IF lo <= i - 1 /\ i - 1 < hi THEN Q(1) ELSE mask[i]]

\* lines 83-92, the frequency-domain branch: [err, val], val the 1-D mask.
\* A tuple cannot be divided by df and a number has no items: TypeError.
RectMask(frequency, kind, samplerate, length) ==
    LET zeros == [i \in 1..length |-> Q(0)]
        b(k) == Bin(frequency.f[k], samplerate, length)
    IN  IF kind \in {"lp", "hp"} /\ frequency.kind # "number"
        THEN Raise("TypeError")
        ELSE IF kind \in {"bp", "notch"} /\ frequency.kind # "tuple"
        THEN Raise("TypeError")
        ELSE LET lp == IF kind = "lp" THEN Ones(zeros, 0, b(1)) ELSE zeros
                 hp == IF kind = "hp" THEN Ones(lp, b(1), length) ELSE lp
                 bp == IF kind = "bp" THEN Ones(hp, b(1), b(2)) ELSE hp
                 notch == IF kind = "notch"
                          THEN Ones(Ones(bp, 0, b(1)), b(2), length)
                          ELSE bp
             IN  Ok(Array1(notch))

\* lines 75-79, the FIR branch: pass_zero is bound for the four documented
\* kinds only (UnboundLocalError otherwise), and scipy.signal.firwin has no
\* parameter named samplerate (TypeError).
RectFir(frequency, kind, samplerate, length) ==
    IF kind \in {"lp", "bs", "hp", "bp"} THEN Raise("TypeError")
    ELSE Raise("UnboundLocalError")

\* Filter.rectangular_filter(frequency, kind, samplerate, length, fir):
\* [err, obj]
RectangularFilterObj(frequency, kind, samplerate, length, fir) ==
    LET rate == GetSamplerate(samplerate)
        mask == IF fir THEN RectFir(frequency, kind, rate, length)
                ELSE RectMask(frequency, kind, rate, length)
    IN  IF mask.err # "none" THEN [err |-> mask.err, obj |-> NoObject]
        ELSE FilterInit([kind |-> "ndarray", array |-> mask.val], rate, fir)

\* filt = Filter.rectangular_filter(frequency, kind, samplerate, length, fir)
RectangularFilter ==
    /\ NothingBuilt
    /\ \E frequency \in FrequencyArgs, kind \in Kinds,
          samplerate \in SamplerateArgs, length \in 1..MaxRows, fir \in BOOLEAN :
         LET r == RectangularFilterObj(frequency, kind, samplerate, length, fir)
         IN  /\ last' = Call("rectangular_filter", r.err,
                             <<frequency, kind, samplerate, length, fir>>, <<>>)
             /\ IF r.err = "none"
                THEN /\ heap' = [Start EXCEPT ![Fresh] = r.obj]
                     /\ filt' = Fresh
                ELSE /\ heap' = Start
                     /\ filt' = filt
             /\ out' = NoRef
             /\ UNCHANGED <<sig, stored>>

(* ------------------------- Filter.cos_filterbank ----------------------- *)
\* Filter._freq2erb(freq_hz) = 9.265 * log(1 + freq_hz / (24.7 * 9.265)), in
\* thousandths of an ERB, for the frequencies f = <<n, d>> Hz of the model:
\* the band limits and the bins k * samplerate / length.
Freq2Erb(f) ==
    CASE f = <<0, 1>> -> 0
      [] f = <<1, 6>> -> 7
      [] f = <<1, 5>> -> 8
      [] f = <<1, 4>> -> 10
      [] f = <<1, 3>> -> 13
      [] f = <<2, 5>> -> 16
      [] f = <<1, 2>> -> 20
      [] f = <<5, 3>> -> 67
      [] f = <<2, 1>> -> 81
      [] f = <<5, 2>> -> 101
      [] f = <<10, 3>> -> 134
      [] f = <<4, 1>> -> 161
      [] f = <<5, 1>> -> 200
      [] f = <<1000, 1>> -> 15572
      [] f = <<4000, 3>> -> 17796
      [] f = <<1600, 1>> -> 19256
      [] f = <<2000, 1>> -> 21089
      [] f = <<8000, 3>> -> 23513
      [] f = <<3200, 1>> -> 25080
      [] f = <<4000, 1>> -> 27023

\* lines 186-188: erb_spacing = _freq2erb(1000 * 2 ** bandwidth) - ref_erb, in
\* thousandths of an ERB, for the bandwidths of the model (in octaves)
ErbSpacing(bandwidth) ==
    CASE bandwidth = <<1, 3>> -> 1778
      [] bandwidth = <<1, 5>> -> 1058
      [] bandwidth = <<1, 1>> -> 5516

Bandwidths == {<<1, 3>>, <<1, 5>>, <<1, 1>>}
LowLims == {0, 1000}
\* hi_lim: None (samplerate / 2) or a frequency
HiLims == {None, 2000}

\* numpy.linspace(l, h, num, retstep=True): the num points, and the step
\* (h - l) / (num - 1), which is nan for num < 2 (here <<0, 0>>)
Linspace(l, h, num) ==
    LET step == IF num > 1 THEN RDiv(RSub(h, l), Q(num - 1)) ELSE <<0, 0>>
    IN  [points |-> [k \in 1..num |->
                        IF num > 1 THEN RAdd(l, RMul(Q(k - 1), step)) ELSE l],
         step |-> step]

\* a cell of a half-cosine: numpy.cos(x * numpy.pi) for the rational x, a number
\* that is not rational: it is named by its argument
CosPi(x) == <<"cos", x[1], x[2]>>

\* lines 181-191: nfilters before nfilters -= 2 (erb scale in thousandths)
CosCount(bandwidth, low_lim, hi_lim, rate) ==
    LET hi == IF hi_lim = None THEN Rat(rate, 2) ELSE Q(hi_lim)
        h == Q(Freq2Erb(hi))
        l == Q(Freq2Erb(Q(low_lim)))
    IN  Round(RDiv(RSub(h, l), Q(ErbSpacing(bandwidth))))

\* lines 181-194 without the bins: [err, centers, spacing, count]: the center
\* frequencies (in thousandths of an ERB, before _erb2freq), the erb_spacing
\* the returned bandwidth is computed from, and nfilters after nfilters -= 2.
\* numpy.linspace raises ValueError for a negative number of points.
CosCenters(bandwidth, low_lim, hi_lim, rate) ==
    LET hi == IF hi_lim = None THEN Rat(rate, 2) ELSE Q(hi_lim)
        h == Q(Freq2Erb(hi))
        l == Q(Freq2Erb(Q(low_lim)))
        n0 == CosCount(bandwidth, low_lim, hi_lim, rate)
        lin == Linspace(l, h, n0)
    IN  IF n0 < 0
        THEN [err |-> "ValueError", centers |-> <<>>, spacing |-> <<0, 0>>,
              count |-> n0 - 2]
        ELSE [err |-> "none",
              centers |-> IF n0 < 2 THEN <<>> ELSE SubSeq(lin.points, 2, n0 - 1),
              spacing |-> lin.step,
              count |-> n0 - 2]

\* lines 195-204: the array of the filters, one column per center frequency;
\* a bin l < erb < h of filter i holds cos((erb - center) / (2 * spacing) * pi)
CosFilts(freq_bins, centers, spacing) ==
    Array2(Len(freq_bins), Len(centers),
        [k \in 1..Len(freq_bins), i \in 1..Len(centers) |->
            LET erb == Q(Freq2Erb(freq_bins[k]))
            IN  IF RLt(RSub(centers[i], spacing), erb)
                   /\ RLt(erb, RAdd(centers[i], spacing))
                THEN CosPi(RDiv(RSub(erb, centers[i]), RMul(Q(2), spacing)))
                ELSE Q(0)])

\* lines 181-205: [err, obj, centers, spacing]: the Filter, the center
\* frequencies and the erb_spacing.  numpy.zeros raises ValueError for a
\* negative dimension.
CosFilterbankValue(length, bandwidth, low_lim, hi_lim, samplerate) ==
    LET rate == GetSamplerate(samplerate)
        c == CosCenters(bandwidth, low_lim, hi_lim, rate)
    IN  IF c.err # "none" \/ c.count < 0
        THEN [err |-> "ValueError", obj |-> NoObject,
              centers |-> <<>>, spacing |-> <<0, 0>>]
        ELSE LET r == FilterInit([kind |-> "ndarray",
                                  array |-> CosFilts(Rfftfreq(length, rate),
                                                     c.centers, c.spacing)],
                                 rate, FALSE)
             IN  [err |-> r.err, obj |-> r.obj,
                  centers |-> c.centers, spacing |-> c.spacing]

\* filt, center_freqs, bandwidth = Filter.cos_filterbank(length, bandwidth,
\*                                     low_lim, hi_lim, samplerate)
CosFilterbank ==
    /\ NothingBuilt
    /\ \E length \in 1..MaxRows, bandwidth \in Bandwidths, low_lim \in LowLims,
          hi_lim \in HiLims, samplerate \in SamplerateArgs :
         LET r == CosFilterbankValue(length, bandwidth, low_lim, hi_lim, samplerate)
         IN  /\ last' = Call("cos_filterbank", r.err,
                             <<length, bandwidth, low_lim, hi_lim, samplerate>>,
                             IF r.err = "none" THEN <<r.centers, r.spacing>>
                             ELSE <<>>)
             /\ IF r.err = "none"
                THEN /\ heap' = [Start EXCEPT ![Fresh] = r.obj]
                     /\ filt' = Fresh
                ELSE /\ heap' = Start
                     /\ filt' = filt
             /\ out' = NoRef
             /\ UNCHANGED <<sig, stored>>

(* ---------------------- Filter.equalizing_filterbank ------------------- *)
\* The signals of an equalization are described by their sizes and rate: the
\* levels of their subbands (the level property of the signal container, dB)
\* are inputs of the call, the filtered samples are not computed.
Describe(o) ==
    [nsamples |-> nsamples(o), nchannels |-> nchannels(o),
     samplerate |-> o.samplerate]

\* signal.resample(samplerate) of the signal container, for a signal that has
\* this samplerate already
Resample(d, samplerate) == [d EXCEPT !.samplerate = samplerate]

\* the bandwidth of the filterbank of line 223, and the taps of the filters of
\* lines 236 and 239
EqBandwidth == <<1, 5>>
EqTaps == 1000

\* the exception of fbank.apply(signal) for a frequency-domain bank of F
\* filters at the signal's rate and a signal of C channels and n samples
\* (ApplyFft without the samples)
FbankApplyErr(F, C, n) ==
    LET m == (n \div 2) + 1
        column == IF IrfftLen(m) = 0 \/ IrfftLen(m) # n THEN "ValueError"
                  ELSE "none"
    IN  IF F = C THEN column
        ELSE IF F = 1 /\ C > 1 THEN "ValueError"
        ELSE IF F > 1 /\ C = 1 THEN column
        ELSE "ShapeMismatch"

\* the reference argument: 'max', 'mean' or a level
ReferenceArgs ==
    {[kind |-> "max", level |-> 0], [kind |-> "mean", level |-> 0],
     [kind |-> "level", level |-> 0]}

\* the levels of the subbands of a signal, band by band (whole dB)
LevelProfiles(nbands) ==
    { [b \in 1..nbands |-> base + tilt * b] :
          <<base, tilt>> \in {<<0, 0>>, <<60, 0>>, <<60, 1>>} }

\* numpy.max of a non-empty vector of integers
MaxSeq(x) ==
    CHOOSE m \in {x[i] : i \in 1..Len(x)} : \A i \in 1..Len(x) : x[i] <= m

\* levels_out.flatten()
RECURSIVE Flatten(_)
Flatten(columns) ==
    IF columns = <<>> THEN <<>> ELSE Head(columns) \o Flatten(Tail(columns))

\* the sum of a vector of integers
RECURSIVE SumInt(_)
SumInt(x) == IF x = <<>> THEN 0 ELSE Head(x) + SumInt(Tail(x))

\* lines 230-233: the level that line 234 subtracts
ReferenceLevel(levels_out, reference) ==
    IF reference.kind = "max" THEN Q(MaxSeq(Flatten(levels_out)))
    ELSE IF reference.kind = "mean"
    THEN Rat(SumInt(Flatten(levels_out)), Len(Flatten(levels_out)))
    ELSE Q(reference.level)

\* line 234: the columns of amp_diffs, one per recorded channel
AmpDiffs(levels_in, levels_out, reference) ==
    CHOOSE amp_diffs \in
        { [idx \in 1..Len(levels_out) |->
              [b \in 1..Len(levels_in) |->
                  RSub(Q(levels_in[b] - levels_out[idx][b]), ref)]] :
          ref \in {ReferenceLevel(levels_out, reference)} } : TRUE

\* lines 218-240: [err, obj, amps]; amps[idx] are the gains the filter of
\* recorded channel idx is designed from (line 238).  The taps of
\* scipy.signal.firwin2 are named by the gains they are designed from.
EqualizingValue(played_signal, recorded_signals, levels_in, levels_out, reference) ==
    LET played == IF played_signal.samplerate > recorded_signals.samplerate
                  THEN Resample(played_signal, recorded_signals.samplerate)
                  ELSE played_signal
        recorded == IF played_signal.samplerate > recorded_signals.samplerate
                    THEN recorded_signals
                    ELSE Resample(recorded_signals, played_signal.samplerate)
        nbands == CosCount(EqBandwidth, 0, None, played.samplerate) - 2
        failed(exc) == [err |-> exc, obj |-> NoObject, amps |-> <<>>]
        e1 == FbankApplyErr(nbands, played.nchannels, played.nsamples)
        e2 == FbankApplyErr(nbands, 1, recorded.nsamples)
    IN  IF nbands < 0 THEN failed("ValueError")
        ELSE IF e1 # "none" THEN failed(e1)
        ELSE IF e2 # "none" THEN failed(e2)
        ELSE LET amp_diffs == AmpDiffs(levels_in, levels_out, reference)
                 amps == [idx \in 1..recorded.nchannels |->
                             <<Q(0)>> \o amp_diffs[idx] \o <<Q(0)>>]
             IN  [err |-> "none",
                  obj |-> [cls |-> "Filter",
                           data |-> [shape |-> <<EqTaps, recorded.nchannels>>,
                                     v |-> <<>>, firwin2 |-> amps],
                           samplerate |-> played.samplerate, fir |-> TRUE],
                  amps |-> amps]

\* the recorded_signals argument: the played signal itself, or a recording of
\* as many samples at the same rate with some number of channels
RecordedArgs(played) ==
    { [same |-> TRUE, signal |-> played] }
    \cup { [same |-> FALSE, signal |-> [played EXCEPT !.nchannels = c]] :
              c \in 1..MaxCols }

\* out = Filter.equalizing_filterbank(sig, recorded_signals, reference); the
\* levels of a recording that is the played signal are the played signal's
EqualizingFilterbank ==
    /\ SignalBuilt /\ filt = NoRef
    /\ LET played == Describe(Start[sig])
           nbands == CosCount(EqBandwidth, 0, None, played.samplerate) - 2
           bands == IF nbands > 0 THEN nbands ELSE 0
       IN  \E recorded \in RecordedArgs(played), reference \in ReferenceArgs,
              levels_in \in LevelProfiles(bands),
              levels \in LevelProfiles(bands) :
             LET levels_out == [idx \in 1..recorded.signal.nchannels |->
                                   IF recorded.same THEN levels_in
                                   ELSE [b \in 1..bands |->
                                            levels[b] + idx - 1]]
                 r == EqualizingValue(played, recorded.signal, levels_in,
                                      levels_out, reference)
             IN  /\ recorded.same => levels = levels_in
                 /\ last' = Call("equalizing_filterbank", r.err,
                                 <<sig, recorded, reference, levels_in, levels_out>>,
                                 r.amps)
                 /\ IF r.err = "none"
                    THEN /\ heap' = [Start EXCEPT ![Fresh] = r.obj]
                         /\ out' = Fresh
                    ELSE /\ heap' = Start
                         /\ out' = NoRef
    /\ UNCHANGED <<filt, sig, stored>>

Next ==
    \/ NewFilter
    \/ NewSignal
    \/ Apply
    \/ Save
    \/ Load
    \/ Tf
    \/ RectangularFilter
    \/ CosFilterbank
    \/ EqualizingFilterbank

Spec == Init /\ [][Next]_vars

(* ------------------------------- claims ------------------------------- *)
\* the operands of the last call of apply, as they were when it was called
ApplyF == last.pre[last.args[1]]
ApplyS == last.pre[last.args[2]]
Applied == last.op = "apply"

\* filter column j applied to channel i alone: the causal convolution of the
\* channel with the taps, or the channel's spectrum times the interpolated
\* gains, transformed back
ColumnOnChannel(f, j, s, i) ==
    IF f.fir
    THEN LET y == Lfilter(Column(f.data, j), AsColumn(Column(s.data, i)))
         IN  IF y.err = "none" THEN Ok(Column(y.val, 1)) ELSE y
    ELSE FftChannel(Column(s.data, i).v,
                    Interp(Rfftfreq(nsamples(s), s.samplerate), Frequencies(f),
                           Column(f.data, j)))

\* the output apply returned has the columns pairs names: pairs[k] = <<j, i>>
\* says that output channel k is filter column j applied to input channel i
Pairs(pairs) ==
    /\ last.err = "none"
    /\ out # NoRef
    /\ nchannels(heap[out]) = Len(pairs)
    /\ \A k \in 1..Len(pairs) :
          LET y == ColumnOnChannel(ApplyF, pairs[k][1], ApplyS, pairs[k][2])
          IN  y.err = "none" /\ Column(heap[out].data, k) = y.val

\* C1: with compatible samplerates, apply pairs filters and channels: F = C
\* gives output channel i = filter i on channel i; F = 1 < C gives output
\* channel i = the filter on channel i; F > 1 = C gives output channel j =
\* filter j on the channel (F channels); in the FIR and in the frequency branch.
C1_ApplyPairs ==
    (Applied /\ ~RateMismatch(ApplyF, ApplyS)) =>
        LET F == nfilters(ApplyF)
            C == nchannels(ApplyS)
        IN  /\ F = C => Pairs([k \in 1..C |-> <<k, k>>])
            /\ (F = 1 /\ C > 1) => Pairs([k \in 1..C |-> <<1, k>>])
            /\ (F > 1 /\ C = 1) => Pairs([k \in 1..F |-> <<k, 1>>])

\* C2: with compatible samplerates, apply raises the shape-mismatch error (the
\* ValueError of lines 112 and 132) and returns nothing exactly when
\* nfilters # nchannels, nfilters # 1 and nchannels # 1.
C2_ShapeMismatch ==
    (Applied /\ ~RateMismatch(ApplyF, ApplyS)) =>
        LET F == nfilters(ApplyF)
            C == nchannels(ApplyS)
        IN  /\ last.err = "ShapeMismatch" <=> (F # C /\ F # 1 /\ C # 1)
            /\ last.err = "ShapeMismatch" => out = NoRef

\* the banks that have filters
C2_ShapeMismatchOfFilters ==
    (Applied /\ ~RateMismatch(ApplyF, ApplyS) /\ nfilters(ApplyF) >= 1) =>
        LET F == nfilters(ApplyF)
            C == nchannels(ApplyS)
        IN  /\ last.err = "ShapeMismatch" <=> (F # C /\ F # 1 /\ C # 1)
            /\ last.err = "ShapeMismatch" => out = NoRef

\* C3: apply raises the rate-mismatch error, with nothing filtered and whatever
\* the counts are, exactly when filter.samplerate # signal.samplerate and
\* filter.samplerate # 1.
C3_RateMismatch ==
    Applied =>
        /\ last.err = "RateMismatch" <=>
              (ApplyF.samplerate # ApplyS.samplerate /\ ApplyF.samplerate # 1)
        /\ last.err = "RateMismatch" => out = NoRef

C3_Witness ==
    /\ Applied
    /\ last.err = "RateMismatch"
    /\ nfilters(ApplyF) = 3
    /\ nchannels(ApplyS) = 2

\* a filter of samplerate 1 applied to a signal of another samplerate
C3_WitnessSentinel ==
    /\ Applied
    /\ last.err = "none"
    /\ ApplyF.samplerate = 1
    /\ ApplyS.samplerate = 10

\* C4: apply never changes its inputs: after a call, returned or failed, the
\* filter and the signal are what they were before it, and a returned signal
\* is another object than the input signal.
C4_InputsUnchanged ==
    Applied =>
        /\ heap[last.args[1]] = ApplyF
        /\ heap[last.args[2]] = ApplyS
        /\ out # NoRef => out \notin {last.args[1], last.args[2]}

C4_Witness ==
    /\ Applied
    /\ last.err = "none"
    /\ out # NoRef
    /\ heap[out].data # heap[sig].data

\* the call the claims below are about
Returned(op) == last.op = op /\ last.err = "none"

\* C5: for every Filter f, save writes (2 + N) rows by F columns, row 0 the
\* samplerate in every column, row 1 the domain flag (1 = FIR) in every
\* column, rows 2.. f.data; and load of that array returns a Filter of the
\* same data, samplerate and domain flag.
C5_SaveLoadRoundTrip ==
    /\ last.op = "save" =>
          LET f == last.pre[last.args[1]]
              N == f.data.shape[1]
              F == f.data.shape[2]
          IN  /\ last.err = "none"
              /\ stored.shape = <<2 + N, F>>
              /\ \A j \in 1..F :
                    /\ stored.v[1][j] = Q(f.samplerate)
                    /\ stored.v[2][j] = (IF f.fir THEN Q(1) ELSE Q(0))
                    /\ \A i \in 1..N : stored.v[2 + i][j] = f.data.v[i][j]
    /\ last.op = "load" =>
          /\ last.err = "none"
          /\ out # NoRef
          /\ heap[out].data = heap[filt].data
          /\ heap[out].samplerate = heap[filt].samplerate
          /\ heap[out].fir = heap[filt].fir

\* the round trip of every filter that has filters
C5_RoundTripOfFilters ==
    (last.op = "load" /\ nfilters(heap[filt]) >= 1) =>
        /\ last.err = "none"
        /\ out \notin {NoRef, filt}
        /\ heap[out] = heap[filt]

\* C6: whenever cos_filterbank returns, the Filter's nfilters is the reduced
\* count round((h - l)/step) - 2, which is the number of returned center
\* frequencies, and its number of bins is floor(length/2) + 1.
C6_CosShape ==
    Returned("cos_filterbank") =>
        LET length == last.args[1]
            count == CosCount(last.args[2], last.args[3], last.args[4],
                              GetSamplerate(last.args[5])) - 2
        IN  /\ nfilters(heap[filt]) = count
            /\ Len(last.val[1]) = count
            /\ nfrequencies(heap[filt]) = (length \div 2) + 1

\* the banks whose reduced count does not exceed the number of bins
C6_CosShapeOfNarrowBanks ==
    Returned("cos_filterbank") =>
        LET length == last.args[1]
            count == CosCount(last.args[2], last.args[3], last.args[4],
                              GetSamplerate(last.args[5])) - 2
        IN  count <= (length \div 2) + 1 =>
               /\ nfilters(heap[filt]) = count
               /\ Len(last.val[1]) = count
               /\ nfrequencies(heap[filt]) = (length \div 2) + 1

\* N >= 1 rows, F >= 1 columns, samplerate > 0
WellFormed(f) ==
    /\ f.cls = "Filter"
    /\ f.data.shape[1] >= 1
    /\ f.data.shape[2] >= 1
    /\ f.samplerate > 0

\* C7: every Filter a constructor returns (Filter(...), rectangular_filter,
\* cos_filterbank, equalizing_filterbank, load) has N >= 1 rows, F >= 1
\* filters and samplerate > 0.
C7_FilterInvariant ==
    /\ (last.op \in FilterMakers /\ last.err = "none") => WellFormed(heap[filt])
    /\ (last.op \in {"equalizing_filterbank", "load"} /\ last.err = "none") =>
          WellFormed(heap[out])

\* the bin of a frequency, b(x) = round(x / df), df = samplerate / (2 length)
B(x, samplerate, length) == Round(RDiv(Q(x), Rat(samplerate, 2 * length)))

\* the value the mask of a kind has on bin k (counted from 0)
Rectangle(kind, b0, b1, k) ==
    IF kind = "lp" THEN (IF k < b0 THEN 1 ELSE 0)
    ELSE IF kind = "hp" THEN (IF k >= b0 THEN 1 ELSE 0)
    ELSE IF kind = "bp" THEN (IF b0 <= k /\ k < b1 THEN 1 ELSE 0)
    ELSE (IF b0 <= k /\ k < b1 THEN 0 ELSE 1)

\* C8: rectangular_filter with fir=False returns a one-filter frequency-domain
\* mask of length bins: 'lp' is 1 exactly on the bins below b(f), 'hp' on the
\* bins from b(f), 'bp' on the bins in [b(f0), b(f1)), 'bs' on the bins
\* outside [b(f0), b(f1)).
C8_RectMask ==
    LET frequency == last.args[1]
        kind == last.args[2]
        rate == GetSamplerate(last.args[3])
        length == last.args[4]
        fir == last.args[5]
        b0 == B(frequency.f[1], rate, length)
        b1 == B(frequency.f[Len(frequency.f)], rate, length)
    IN  (/\ last.op = "rectangular_filter"
         /\ ~fir
         /\ \/ kind \in {"lp", "hp"} /\ frequency.kind = "number"
            \/ kind \in {"bp", "bs"} /\ frequency.kind = "tuple") =>
            /\ last.err = "none"
            /\ ~heap[filt].fir
            /\ heap[filt].data.shape = <<length, 1>>
            /\ \A k \in 0..(length - 1) :
                  heap[filt].data.v[k + 1][1] = Q(Rectangle(kind, b0, b1, k))

\* the three kinds the code tests for under the documented names
C8_RectMaskButBandstop ==
    LET frequency == last.args[1]
        kind == last.args[2]
        rate == GetSamplerate(last.args[3])
        length == last.args[4]
        fir == last.args[5]
        b0 == B(frequency.f[1], rate, length)
        b1 == B(frequency.f[Len(frequency.f)], rate, length)
    IN  (/\ last.op = "rectangular_filter"
         /\ ~fir
         /\ \/ kind \in {"lp", "hp"} /\ frequency.kind = "number"
            \/ kind \in {"bp", "notch"} /\ frequency.kind = "tuple") =>
            /\ last.err = "none"
            /\ ~heap[filt].fir
            /\ heap[filt].data.shape = <<length, 1>>
            /\ \A k \in 0..(length - 1) :
                  heap[filt].data.v[k + 1][1] =
                      Q(Rectangle(IF kind = "notch" THEN "bs" ELSE kind,
                                  b0, b1, k))

\* C9: equalizing_filterbank of identical played and recorded signals (one
\* channel, one samplerate) with reference='mean' designs its filter from
\* gains of no change, 0 dB in every subband, whatever the levels are.
C9_NoGainChange ==
    (/\ Returned("equalizing_filterbank")
     /\ last.args[2].same
     /\ last.args[3].kind = "mean") =>
        /\ Len(last.val) = 1
        /\ \A b \in 1..Len(last.val[1]) : last.val[1][b] = Q(0)

\* what the gains of that call are: minus the mean level, in every subband
C9_GainIsMinusMean ==
    (/\ Returned("equalizing_filterbank")
     /\ last.args[2].same
     /\ last.args[3].kind = "mean") =>
        LET levels == last.args[4]
            mean == Rat(SumInt(levels), Len(levels))
        IN  \A b \in 1..Len(levels) : last.val[1][b + 1] = RSub(Q(0), mean)

\* C10: for a FIR filter with F filters, tf(channels, plot=False) returns,
\* without error, a magnitude matrix of 512 rows and one column per selected
\* filter, for a single index, a list of distinct indices in any order and
\* 'all'; the column of a selected filter holds that filter's response.
C10_TfColumns ==
    (/\ last.op = "tf"
     /\ last.pre[last.args[1]].fir
     /\ ~last.args[3]) =>
        LET f == last.pre[last.args[1]]
            list == ChannelList(f, last.args[2])
        IN  /\ last.err = "none"
            /\ last.val[2].shape = <<WorN, Len(list)>>
            /\ \A p \in 1..Len(list) :
                  last.val[2].cols[p] =
                      Freqz(Column(f.data, list[p] + 1), f.samplerate)

\* the selections that are 0, 1, .., n - 1 in this order, where scipy reads
\* the taps
C10_TfColumnsOfPrefixes ==
    (/\ last.op = "tf"
     /\ last.pre[last.args[1]].fir
     /\ ~last.args[3]
     /\ last.args[4]) =>
        LET f == last.pre[last.args[1]]
            list == ChannelList(f, last.args[2])
        IN  (\A p \in 1..Len(list) : list[p] = p - 1) =>
               /\ last.err = "none"
               /\ last.val[2].shape = <<WorN, Len(list)>>
               /\ \A p \in 1..Len(list) :
                     last.val[2].cols[p] =
                         Freqz(Column(f.data, list[p] + 1), f.samplerate)

\* the call of apply is one of the three cases that pair filters and channels
Paired(F, C) == F = C \/ (F = 1 /\ C > 1) \/ (F > 1 /\ C = 1)

\* C11: for a frequency-domain filter and a signal that satisfy the rate
\* precondition and one of the three cases, apply returns a signal of as many
\* samples as the input, for odd and for even sample counts.
C11_SameSamples ==
    (/\ Applied
     /\ ~ApplyF.fir
     /\ ~RateMismatch(ApplyF, ApplyS)
     /\ Paired(nfilters(ApplyF), nchannels(ApplyS))) =>
        /\ last.err = "none"
        /\ out # NoRef
        /\ nsamples(heap[out]) = nsamples(ApplyS)

\* the even sample counts, where the filter's columns are interpolated one by
\* one (every case but one filter on several channels)
C11_SameSamplesOfEven ==
    (/\ Applied
     /\ ~ApplyF.fir
     /\ ~RateMismatch(ApplyF, ApplyS)
     /\ Paired(nfilters(ApplyF), nchannels(ApplyS))
     /\ nsamples(ApplyS) % 2 = 0
     /\ ~(nfilters(ApplyF) = 1 /\ nchannels(ApplyS) > 1)) =>
        /\ last.err = "none"
        /\ out # NoRef
        /\ nsamples(heap[out]) = nsamples(ApplyS)

\* the odd sample counts: apply raises and returns nothing
C11_OddRaises ==
    (/\ Applied
     /\ ~ApplyF.fir
     /\ ~RateMismatch(ApplyF, ApplyS)
     /\ Paired(nfilters(ApplyF), nchannels(ApplyS))
     /\ nsamples(ApplyS) % 2 = 1) =>
        /\ last.err = "ValueError"
        /\ out = NoRef

\* C12: for every length L >= 2 and samplerate s, the frequencies of the
\* Filter cos_filterbank(length=L, samplerate=s) returns are, bin for bin,
\* the axis k * s / L, k = 0..floor(L/2), the filter shapes were computed on.
C12_CosAxis ==
    (Returned("cos_filterbank") /\ last.args[1] >= 2) =>
        LET L == last.args[1]
            s == GetSamplerate(last.args[5])
            axis == Frequencies(heap[filt])
        IN  /\ Len(axis) = (L \div 2) + 1
            /\ \A k \in 0..(L \div 2) : axis[k + 1] = Rat(k * s, L)

\* the odd lengths, for the banks whose filters do not outnumber the bins
C12_CosAxisOfOddLengths ==
    (Returned("cos_filterbank") /\ last.args[1] >= 2) =>
        LET L == last.args[1]
            s == GetSamplerate(last.args[5])
            axis == Frequencies(heap[filt])
        IN  (L % 2 = 1 /\ nfilters(heap[filt]) <= (L \div 2) + 1
                /\ Len(last.val[1]) = nfilters(heap[filt])) =>
               /\ Len(axis) = (L \div 2) + 1
               /\ \A k \in 0..(L \div 2) : axis[k + 1] = Rat(k * s, L)

\* the even lengths: the second bin is not the builder's
C12_EvenAxisDiffers ==
    (Returned("cos_filterbank") /\ last.args[1] >= 2
        /\ last.args[1] % 2 = 0) =>
        Frequencies(heap[filt])[2] #
            Rat(GetSamplerate(last.args[5]), last.args[1])

====
